---- MODULE Spec2Model ----
(***************************************************************************)
(* Model of src/main.c: the Arduino sketch that publishes sensor readings  *)
(* over a kept-alive HTTP connection.  loop() is the only handler; each    *)
(* invocation is one step of the model.  The WiFi module, the server and   *)
(* the TCP transport are the environment.                                  *)
(*                                                                         *)
(* Time.  The sketch keeps unsigned long timestamps (lastUpdateTime,       *)
(* lastConnectionTime, lastSuccessfulSend) and only ever reads them in     *)
(* differences millis() - stamp.  The model keeps, for each stamp, that    *)
(* difference (the stamp's age at the current instant), saturated at a     *)
(* cap above every threshold the code compares it with.  "stamp = millis()"*)
(* is age 0, and time passing adds to every age.  Durations are multiples  *)
(* of 500 ms.                                                              *)
(***************************************************************************)
EXTENDS Integers, Sequences, FiniteSets

(***************************************************************************)
(* Program constants                                                       *)
(***************************************************************************)
RECONNECT_INTERVAL == 120000
UPDATE_INTERVAL == 1000
MAX_CONSECUTIVE_TIMEOUTS == 3
ConnectBudget == 5000
ResponseBudget == 5000
CloseMargin == 4000
CoolDownDelay == 2000
LoopDelay == 10
\* line 265: delay(100) between two client.connect() calls
RetryDelay == 100
\* unsigned long (lines 24, 43, 97, 262, 310) has 32 bits on the Uno R4
ClockWidth == 32
\* a clock value is kept as its two 16-bit halves << high, low >>
Half == 2 ^ (ClockWidth \div 2)

(***************************************************************************)
(* Arduino String operations used on the response lines.  A String is a    *)
(* sequence of one-character strings; indices are 0-based as in the        *)
(* library, and -1 is "not found".                                         *)
(***************************************************************************)
Whitespace == {" ", "\r", "\t", "\n"}
DigitChars == <<"0", "1", "2", "3", "4", "5", "6", "7", "8", "9">>

\* the characters of s from the first that is not whitespace
TrimLeft(s) ==
    LET keep == {i \in 1..Len(s) : s[i] \notin Whitespace}
    IN  IF keep = {} THEN <<>>
        ELSE SubSeq(s, CHOOSE i \in keep : \A j \in keep : i <= j, Len(s))

\* the characters of s up to the last that is not whitespace
TrimRight(s) ==
    LET keep == {i \in 1..Len(s) : s[i] \notin Whitespace}
    IN  IF keep = {} THEN <<>>
        ELSE SubSeq(s, 1, CHOOSE i \in keep : \A j \in keep : i >= j)

\* String::trim()
Trim(s) == TrimRight(TrimLeft(s))

\* String::startsWith(prefix)
StartsWith(s, p) == Len(s) >= Len(p) /\ SubSeq(s, 1, Len(p)) = p

\* String::indexOf(ch, from)
IndexOf(s, ch, from) ==
    LET hits == {i \in from..(Len(s) - 1) : s[i + 1] = ch}
    IN  IF hits = {} THEN -1
        ELSE CHOOSE i \in hits : \A j \in hits : i <= j

\* String::substring(from, to): the characters at from .. to-1
Substring(s, from, to) == SubSeq(s, from + 1, to)

DigitValue(c) == CHOOSE d \in 0..9 : DigitChars[d + 1] = c

IsDigit(c) == \E d \in 1..10 : DigitChars[d] = c

\* String::toInt(): the leading decimal digits (after leading whitespace),
\* 0 when there are none
ToInt(s) ==
    LET t == TrimLeft(s)
        stop == {i \in 1..Len(t) : ~IsDigit(t[i])}
        k == IF stop = {} THEN Len(t)
             ELSE (CHOOSE i \in stop : \A j \in stop : i <= j) - 1
        acc[i \in 0..k] ==
            IF i = 0 THEN 0 ELSE 10 * acc[i - 1] + DigitValue(t[i])
    IN  acc[k]

HttpPrefix == <<"H", "T", "T", "P", "/", "1", ".", "1">>

\* The response code the loop extracts from a status line (lines 331-339);
\* responseCode keeps its initial 0 when a space is missing.
ParseCode(line) ==
    LET spaceIndex == IndexOf(line, " ", 0)
    IN  IF spaceIndex > 0
        THEN LET secondSpaceIndex == IndexOf(line, " ", spaceIndex + 1)
             IN  IF secondSpaceIndex > 0
                 THEN ToInt(Substring(line, spaceIndex + 1, secondSpaceIndex))
                 ELSE 0
        ELSE 0

(***************************************************************************)
(* Bounds of the model                                                     *)
(***************************************************************************)
\* cap of the age of lastConnectionTime (above RECONNECT_INTERVAL)
AgeCap == 121000
\* cap of the age of lastSuccessfulSend and of the recorded durations (the
\* code never branches on them)
SuccessCap == 1000
\* most lines the response loop reads in one cycle
MaxLines == 2
\* connectFailRun stops counting here
FailRunCap == 4
\* openedFor counts the time a connection has been open in whole multiples
\* of this
LifeQuantum == 60000

\* ClockSpec lets this much time pass
ClockHorizon == 20000

Min(a, b) == IF a < b THEN a ELSE b

(***************************************************************************)
(* The environment's inputs                                                *)
(***************************************************************************)
\* values of WiFi.status() the sketch distinguishes
WiFiStatuses == {"WL_CONNECTED", "WL_DISCONNECTED", "WL_NO_MODULE"}

\* time one loop() invocation takes after its work: delay(10) plus the
\* time the calls themselves take, which the code does not control
PauseTimes == {LoopDelay + 490, LoopDelay + 119490}

\* time from millis() at line 97 to millis() at line 246 (sampling 3 x 10
\* ADC reads, logging, building the JSON)
SampleTimes == {0, 500, 1000}

\* elapsed time of the response loop when it ends before its budget
WaitTimes == {0, 4000}

\* what happens to a connect attempt.  "refused": no client.connect()
\* succeeds inside the budget; "reset": a connect() succeeds and the peer is
\* gone again when line 268 asks client.connected()
ConnectOutcomes == {"accepted", "refused", "reset"}

\* status codes and reason phrases a server may send
ServerCodes == {200, 202, 500}
ReasonPhrases == {<<>>, <<"O", "K">>}

\* how the server writes a code: three decimal digits
CodeDigits(code) ==
    << DigitChars[(code \div 100) + 1],
       DigitChars[((code \div 10) % 10) + 1],
       DigitChars[(code % 10) + 1] >>

\* a status line as sent: HTTP/1.1 SP code SP reason CR (LF ends the read)
StatusLine(code, reason) ==
    HttpPrefix \o <<" ">> \o CodeDigits(code) \o <<" ">> \o reason \o <<"\r">>

BlankLine == <<"\r">>
HeaderLine == <<"d", "a", "t", "e", ":", " ", "x", "\r">>

\* the lines a server may send, each with the status code it carries
\* (-1: not an HTTP/1.1 status line)
ServerLines ==
    {[text |-> StatusLine(c, r), code |-> c] : c \in ServerCodes, r \in ReasonPhrases}
    \cup {[text |-> BlankLine, code |-> -1], [text |-> HeaderLine, code |-> -1]}

\* the sequences over S of length at most n
SeqsUpTo(S, n) == UNION {[1..m -> S] : m \in 0..n}

\* A response as the loop of lines 317-378 meets it: the lines that become
\* readable (non-blank ones, then the blank line when end = "blank"), how
\* the loop ends, and the time it has run when it ends.  The loop leaves at
\* the blank line (break), when its budget is spent, or when
\* client.connected() turns false.
Responses ==
    {[lines |-> ls, end |-> e, elapsed |-> w] :
        ls \in SeqsUpTo({l \in ServerLines : l.text # BlankLine}, MaxLines),
        e \in {"blank", "timeout", "drop"},
        w \in WaitTimes \cup {ResponseBudget}}

ValidResponse(r) ==
    IF r.end = "timeout" THEN r.elapsed = ResponseBudget ELSE r.elapsed < ResponseBudget

\* line 325: the lines the loop takes for a status line
StatusLinesSeen(lines) ==
    {i \in 1..Len(lines) : StartsWith(Trim(lines[i].text), HttpPrefix)}

FirstOf(S) == CHOOSE i \in S : \A j \in S : i <= j

\* The response loop, lines 310-378: what it leaves in its locals.
\*   sent: the server wrote an HTTP/1.1 status line among the lines read;
\*   taken is the status code the server wrote in the line that line 325
\*   took for the status line (-1 when it took none).
ResponseLoop(r) ==
    LET seen == StatusLinesSeen(r.lines)
    IN  [responseReceived |-> seen # {},
         responseCode |-> IF seen = {} THEN 0
                          ELSE ParseCode(Trim(r.lines[FirstOf(seen)].text)),
         headerEnded |-> r.end = "blank",
         dropped |-> r.end = "drop",
         elapsed |-> r.elapsed,
         sent |-> \E i \in 1..Len(r.lines) : r.lines[i].code # -1,
         taken |-> IF seen = {} THEN -1 ELSE r.lines[FirstOf(seen)].code]

\* every result the response loop can have on a connection that is live when
\* the request is written
LoopResults == {ResponseLoop(r) : r \in {x \in Responses : ValidResponse(x)}}

\* a response of a server that answers well: the first status line it
\* writes carries 200 and the blank line follows inside the budget
GoodResponse(r) ==
    LET sent == {i \in 1..Len(r.lines) : r.lines[i].code # -1}
    IN  /\ sent # {}
        /\ r.lines[FirstOf(sent)].code = 200
        /\ r.end = "blank"

GoodResponses == {x \in Responses : ValidResponse(x) /\ GoodResponse(x)}

\* the results of the response loop when the server answers well
GoodLoopResults == {ResponseLoop(r) : r \in GoodResponses}

\* bytes of a response that become readable after the drain of lines
\* 402-408 has run: the end of a body, without a line end
StaleBytes == <<"o", "k">>

\* a response as the loop meets it when StaleBytes are still unread: the
\* first readStringUntil('\n') returns them together with the first line
\* sent; if that line is the blank line the loop does not see the end of
\* the headers and runs until its budget is spent
GarbleFirst(r) ==
    IF Len(r.lines) > 0
    THEN [r EXCEPT !.lines[1].text = StaleBytes \o @]
    ELSE IF r.end = "blank"
         THEN [r EXCEPT !.end = "timeout", !.elapsed = ResponseBudget]
         ELSE r

\* every result the response loop can have on a reused connection whose
\* buffer still holds StaleBytes when the request is written
StaleLoopResults ==
    {ResponseLoop(GarbleFirst(r)) : r \in {x \in Responses : ValidResponse(x)}}

\* the same when the server answers well
GoodStaleLoopResults == {ResponseLoop(GarbleFirst(r)) : r \in GoodResponses}

\* the results the response loop of a cycle can have: need is the test of
\* line 246 (a new connection starts with an empty buffer), good is
\* serverGood
Readable(need, stale, good) ==
    IF ~need /\ stale
    THEN IF good THEN GoodStaleLoopResults ELSE StaleLoopResults
    ELSE IF good THEN GoodLoopResults ELSE LoopResults

\* line 317 on a client that is not connected: the loop body never runs
NoLoop ==
    [responseReceived |-> FALSE, responseCode |-> 0, headerEnded |-> FALSE,
     dropped |-> TRUE, elapsed |-> 0, sent |-> FALSE, taken |-> -1]

(***************************************************************************)
(* State                                                                   *)
(***************************************************************************)
VARIABLES
    wifi,                 \* what WiFi.status() returns now (environment)
    serverGood,           \* TRUE: the server accepts every connect and answers
                          \* every request with a 200 status line and the end
                          \* of the headers inside the budget (environment)
    status,               \* int status (line 44)
    keepAlive,            \* USE_KEEP_ALIVE of this build (line 22)
    client,               \* the WiFiClient: "closed" (never opened, or
                          \* stopped), "live" (connected() is true), "dropped"
                          \* (opened, connection lost, stop() not called)
    isConnected,          \* bool isConnected (line 25)
    consecutiveTimeouts,  \* int consecutiveTimeouts (line 37)
    sinceUpdate,          \* millis() - lastUpdateTime, capped at UPDATE_INTERVAL
    sinceConnection,      \* millis() - lastConnectionTime while isConnected,
                          \* capped at AgeCap; AgeCap while isConnected is
                          \* false (the code reads the stamp only at lines 125
                          \* and 246, both behind isConnected, and line 272
                          \* writes it before isConnected turns true)
    sinceSuccess,         \* millis() - lastSuccessfulSend, capped at SuccessCap
    unread,               \* the client's receive buffer holds bytes of the
                          \* response to an earlier request (FALSE whenever
                          \* the client is not live)
    halted,               \* stuck in while (true) of conectar_wifi (line 165)
    lastLive,             \* history: what the most recent client.connected()
                          \* returned
    noStatusRun,          \* history: the most recent send cycles in a row
                          \* that ended without a status line received
                          \* (responseReceived false), since the last cool-down
    connectFailRun,       \* history: loop() invocations in a row, up to the
                          \* last one, whose connect attempt failed, capped at
                          \* FailRunCap
    openedFor,            \* history: a lower bound of the time the open
                          \* connection has been open, in multiples of
                          \* LifeQuantum, capped at RECONNECT_INTERVAL
    ev,                   \* history: what the last loop() invocation did
    clock                 \* millis() and the stamps taken from it as 32-bit
                          \* values, with the unwrapped times beside them
                          \* (used by ClockSpec; constant elsewhere)

vars == << wifi, serverGood, status, keepAlive, client, isConnected,
           consecutiveTimeouts, sinceUpdate, sinceConnection, sinceSuccess,
           unread, halted, lastLive, noStatusRun, connectFailRun, openedFor,
           ev, clock >>

Paths == {"boot", "wifi_lost", "halt", "cooldown", "idle", "connect_fail",
          "no_conn", "cycle"}

\* The record of a loop() invocation:
\*   n          flips at every invocation
\*   path       the path taken
\*   attempted  client.connect() was called
\*   wrote      the request was written (lines 295-307)
\*   live       what client.connected() returned at line 268 or 284
\*   sent, taken, received, elapsed  of the response loop (see ResponseLoop)
\*   stamped    lastSuccessfulSend = millis() was executed (line 434)
\*   total      the time the invocation took, capped at SuccessCap
\*   tail       the time from the end of the response loop to the end of
\*              the invocation, capped at SuccessCap
\*   run        noStatusRun when a cool-down began
\*   stale      the connection was reused (line 246 false) although
\*              millis() - lastConnectionTime was RECONNECT_INTERVAL or more
\*              at line 246
\*   unclosed   client.connect() was called on a handle that an earlier
\*              connect had opened and on which stop() was never called
Event(path, attempted, wrote, live, res, stamped, total, tail, run, stale, unclosed) ==
    [n |-> 1 - ev.n, path |-> path, attempted |-> attempted, wrote |-> wrote,
     stale |-> stale, unclosed |-> unclosed,
     live |-> live, sent |-> res.sent, taken |-> res.taken,
     received |-> res.responseReceived,
     elapsed |-> res.elapsed, stamped |-> stamped,
     total |-> Min(total, SuccessCap), tail |-> Min(tail, SuccessCap),
     run |-> run]

\* an invocation that does not reach the request
Quiet(path, attempted, total) ==
    Event(path, attempted, FALSE, FALSE, NoLoop, FALSE, total, 0, 0, FALSE,
          FALSE)

\* the unsigned long with value n, 0 <= n < 2^31
Word(n) == << n \div Half, n % Half >>

\* a + b and a - b in unsigned long arithmetic, with carry and borrow
Add32(a, b) ==
    LET low == a[2] + b[2]
    IN  << (a[1] + b[1] + low \div Half) % Half, low % Half >>

Sub32(a, b) ==
    LET low == a[2] - b[2]
    IN  << (a[1] - b[1] + low \div Half) % Half, low % Half >>

\* a < b between unsigned longs
Less32(a, b) == a[1] < b[1] \/ (a[1] = b[1] /\ a[2] < b[2])

\* the value of an unsigned long as a number; every value from 2^31 on is
\* given as 2^31 - 1, above every interval the code compares with
ToAge(w) ==
    IF w[1] >= Half \div 2
    THEN (Half \div 2 - 1) * Half + (Half - 1)
    ELSE w[1] * Half + w[2]

\* the elapsed time taken as now - stamp only when now is not below stamp
ElapsedGuarded(now, stamp) ==
    IF Less32(now, stamp) THEN 0 ELSE ToAge(Sub32(now, stamp))

\* millis() - stamp in unsigned long arithmetic (lines 125, 134, 246, 263,
\* 317)
Elapsed32(now, stamp) == ToAge(Sub32(now, stamp))

\* the clock and the stamps when millis() is at and the last cycle ended
\* back ago.  ageUpdate, ageConnection and ageStart are the times that have
\* really passed since lastUpdateTime, lastConnectionTime and the start of
\* the wait loop in progress were written; ran is the time since the
\* initial state; tests holds the interval tests of the last step
ClockAt(at, back, conn) ==
    [now |-> at,
     lastUpdateTime |-> Sub32(at, Word(back)),
     lastConnectionTime |-> Sub32(at, Word(back)),
     connect_start |-> Word(0), timeout_start |-> Word(0),
     conn |-> conn, phase |-> "loop",
     ageUpdate |-> back, ageConnection |-> back, ageStart |-> 0,
     ran |-> 0, tests |-> {}]

\* lines 24, 43 and the start of millis()
ClockAtBoot == ClockAt(Word(0), 0, FALSE)

\* after setup(): conectar_wifi() has returned, so status is WL_CONNECTED and
\* at least one delay(5000) has passed since the stamps were zeroed
Init ==
    /\ clock = ClockAtBoot
    /\ wifi = "WL_CONNECTED"
    /\ serverGood \in BOOLEAN
    /\ status = "WL_CONNECTED"
    /\ keepAlive = TRUE
    /\ client = "closed"
    /\ isConnected = FALSE
    /\ consecutiveTimeouts = 0
    /\ sinceUpdate = UPDATE_INTERVAL
    /\ sinceConnection = AgeCap
    /\ sinceSuccess = SuccessCap
    /\ unread = FALSE
    /\ halted = FALSE
    /\ lastLive = FALSE
    /\ noStatusRun = 0
    /\ connectFailRun = 0
    /\ openedFor = 0
    /\ ev = [n |-> 0, path |-> "boot", attempted |-> FALSE, wrote |-> FALSE,
             live |-> FALSE, sent |-> FALSE, taken |-> -1, received |-> FALSE,
             elapsed |-> 0,
             stamped |-> FALSE, total |-> 0, tail |-> 0, run |-> 0,
             stale |-> FALSE, unclosed |-> FALSE]

(***************************************************************************)
(* The environment                                                         *)
(***************************************************************************)
EnvWiFi ==
    /\ UNCHANGED clock
    /\ \E w \in WiFiStatuses \ {wifi} : wifi' = w
    /\ UNCHANGED << serverGood, status, keepAlive, client, isConnected,
                    consecutiveTimeouts, sinceUpdate, sinceConnection,
                    sinceSuccess, unread, halted, lastLive, noStatusRun,
                    connectFailRun, openedFor, ev >>

EnvServer ==
    /\ UNCHANGED clock
    /\ serverGood' = ~serverGood
    /\ UNCHANGED << wifi, status, keepAlive, client, isConnected,
                    consecutiveTimeouts, sinceUpdate, sinceConnection,
                    sinceSuccess, unread, halted, lastLive, noStatusRun,
                    connectFailRun, openedFor, ev >>

\* the peer or the network ends the connection between two loop() calls
EnvDrop ==
    /\ UNCHANGED clock
    /\ client = "live"
    /\ client' = "dropped"
    /\ openedFor' = 0
    /\ unread' = FALSE
    /\ UNCHANGED << wifi, serverGood, status, keepAlive, isConnected,
                    consecutiveTimeouts, sinceUpdate, sinceConnection,
                    sinceSuccess, halted, lastLive, noStatusRun,
                    connectFailRun, ev >>

\* after a cycle in which the server answered, more bytes of the answer
\* (StaleBytes) reach the client: the loop of lines 317-378 stops at the
\* blank line and the drain of lines 402-408 reads only what is available
\* when it runs
EnvLate ==
    /\ UNCHANGED clock
    /\ client = "live"
    /\ ~unread
    /\ ev.path = "cycle"
    /\ ev.sent
    /\ unread' = TRUE
    /\ UNCHANGED << wifi, serverGood, status, keepAlive, client, isConnected,
                    consecutiveTimeouts, sinceUpdate, sinceConnection,
                    sinceSuccess, halted, lastLive, noStatusRun,
                    connectFailRun, openedFor, ev >>

(***************************************************************************)
(* loop() and enviar_datos_sensores(): the decisions, as the code takes    *)
(* them                                                                    *)
(***************************************************************************)
\* the age at time t of the invocation of a stamp that had age age0 when the
\* invocation began and was last written at time at (-1: not written)
AgeAt(age0, at, t, cap) == Min(IF at >= 0 THEN t - at ELSE age0 + t, cap)

\* sinceConnection after an invocation that leaves isConnected = ic
ConnAge(ic, age) == IF ic THEN age ELSE AgeCap

\* openedFor after the connection, if cl is live, has been open for d more
Older(cl, span, d) ==
    IF cl = "live"
    THEN Min(span + LifeQuantum * (d \div LifeQuantum), RECONNECT_INTERVAL)
    ELSE 0

\* client.connected()
Connected(cl) == cl = "live"

\* client.stop() behind if (client.connected()), lines 89-91, 103-105, 249-252
StopIfConnected(cl) == IF Connected(cl) THEN "closed" ELSE cl

\* line 100 written with > for >=
CoolDownDueStrict(ct) == ct > MAX_CONSECUTIVE_TIMEOUTS

\* line 100
CoolDownDue(ct) == ct >= MAX_CONSECUTIVE_TIMEOUTS

\* lines 116-131: the keep-alive check of loop(); stamped: lastConnectionTime
\* = currentTime was executed
KeepAliveCheck(ka, ic, cl, age) ==
    IF ka /\ ic
    THEN IF ~Connected(cl)
         THEN [ic |-> FALSE, cl |-> cl, stamped |-> TRUE]
         ELSE IF age >= RECONNECT_INTERVAL
              THEN [ic |-> FALSE, cl |-> "closed", stamped |-> TRUE]
              ELSE [ic |-> ic, cl |-> cl, stamped |-> FALSE]
    ELSE [ic |-> ic, cl |-> cl, stamped |-> FALSE]

\* line 134
UpdateDue(age) == age >= UPDATE_INTERVAL

\* line 246
NeedConnect(ic, age) == ~ic \/ age > RECONNECT_INTERVAL

\* lines 268-292 with connection_success always true
ConnectionSuccessAlways(cl) == TRUE

\* the connection is reused at line 246 with its last activity
\* RECONNECT_INTERVAL or more in the past
Stale(need, age, s) ==
    ~need /\ AgeAt(age, -1, s, AgeCap) >= RECONNECT_INTERVAL

\* lines 249-263: client.connect() is called on a handle that is not
\* connected and was not stopped (stop() is called only behind
\* client.connected())
Unclosed(need, cl) == need /\ cl = "dropped"

\* lines 268 and 284: connection_success
ConnectionSuccess(cl) == Connected(cl)

\* lines 381-394 without the test of responseReceived
TimeoutCloseAnyResponse(received, elapsed) == elapsed >= CloseMargin

\* line 389 written with > for >=
TimeoutCloseStrict(received, elapsed) == ~received /\ elapsed > CloseMargin

\* lines 381-394: no response and a long wait: client.stop()
TimeoutClose(received, elapsed) == ~received /\ elapsed >= CloseMargin

\* lines 410-430 without the client.connected() check of line 413
KeepAliveEndUnchecked(ka, ic, cl) ==
    IF ka THEN [ic |-> ic, cl |-> cl, stamped |-> TRUE]
    ELSE [ic |-> FALSE, cl |-> "closed", stamped |-> FALSE]

\* lines 410-430 without the else branch of lines 425-430
KeepAliveEndNoClose(ka, ic, cl) ==
    IF ka
    THEN IF ~Connected(cl)
         THEN [ic |-> FALSE, cl |-> cl, stamped |-> FALSE]
         ELSE [ic |-> ic, cl |-> cl, stamped |-> TRUE]
    ELSE [ic |-> ic, cl |-> cl, stamped |-> FALSE]

\* lines 410-430: the end-of-cycle keep-alive handling
KeepAliveEnd(ka, ic, cl) ==
    IF ka
    THEN IF ~Connected(cl)
         THEN [ic |-> FALSE, cl |-> cl, stamped |-> FALSE]
         ELSE [ic |-> ic, cl |-> cl, stamped |-> TRUE]
    ELSE [ic |-> FALSE, cl |-> "closed", stamped |-> FALSE]

\* lines 431-469 with the reset of line 468 taken for every received code
\* other than 200
CountersResetOnAny(received, code, ct) ==
    IF received /\ code = 200 THEN [ct |-> 0, stamped |-> TRUE]
    ELSE IF ~received THEN [ct |-> ct + 1, stamped |-> FALSE]
    ELSE [ct |-> 0, stamped |-> FALSE]

\* lines 431-469: the counters after a cycle; stamped: lastSuccessfulSend =
\* millis() was executed
Counters(received, code, ct) ==
    IF received /\ code = 200 THEN [ct |-> 0, stamped |-> TRUE]
    ELSE IF ~received THEN [ct |-> ct + 1, stamped |-> FALSE]
    ELSE IF code >= 400 THEN [ct |-> 0, stamped |-> FALSE]
    ELSE [ct |-> ct, stamped |-> FALSE]

\* lines 273-279 counting a failed connect attempt as a timeout
ConnectFailCounted(ct) == [ct |-> ct + 1, stamped |-> FALSE]

\* lines 273-279: the branch of a failed connect attempt returns without
\* touching consecutiveTimeouts or lastSuccessfulSend
ConnectFailCounters(ct) == [ct |-> ct, stamped |-> FALSE]

\* what serverGood promises about a response

(***************************************************************************)
(* loop(), one action per path through it                                  *)
(***************************************************************************)
\* line 176: conectar_wifi() calls WiFi.begin() only while the global status,
\* the result of the last WiFi.begin(), is not WL_CONNECTED
AssociationLoopRuns(st) == st # "WL_CONNECTED"

\* lines 82-94, with conectar_wifi() (lines 159-206)
LoopWiFiLost ==
    /\ UNCHANGED clock
    /\ ~halted
    /\ wifi # "WL_CONNECTED"
    /\ IF wifi = "WL_NO_MODULE"
       THEN \* line 165: while (true);
            /\ halted' = TRUE
            /\ ev' = Quiet("halt", FALSE, 0)
            /\ UNCHANGED << wifi, status, client, isConnected, sinceUpdate,
                            sinceConnection, sinceSuccess, lastLive, openedFor,
                            connectFailRun, unread >>
       ELSE \E d \in PauseTimes :
            /\ halted' = FALSE
            \* lines 176-194: the loop runs only while status is not
            \* WL_CONNECTED, and ends when WiFi.begin() has returned it
            /\ IF AssociationLoopRuns(status)
               THEN status' = "WL_CONNECTED" /\ wifi' = "WL_CONNECTED"
               ELSE UNCHANGED << status, wifi >>
            /\ isConnected' = FALSE
            /\ lastLive' = Connected(client)
            /\ client' = StopIfConnected(client)
            /\ unread' = FALSE
            /\ openedFor' = 0
            /\ sinceUpdate' = Min(sinceUpdate + d, UPDATE_INTERVAL)
            /\ sinceConnection' = AgeCap
            /\ sinceSuccess' = Min(sinceSuccess + d, SuccessCap)
            /\ ev' = Quiet("wifi_lost", FALSE, d)
            /\ connectFailRun' = 0
    /\ UNCHANGED << serverGood, keepAlive, consecutiveTimeouts, noStatusRun >>

\* lines 99-113
LoopCoolDown ==
    /\ UNCHANGED clock
    /\ ~halted
    /\ wifi = "WL_CONNECTED"
    /\ CoolDownDue(consecutiveTimeouts)
    /\ lastLive' = Connected(client)
    /\ client' = StopIfConnected(client)
    /\ unread' = FALSE
    /\ openedFor' = 0
    /\ isConnected' = FALSE
    /\ consecutiveTimeouts' = 0
    /\ sinceConnection' = AgeCap
    /\ sinceUpdate' = Min(sinceUpdate + CoolDownDelay, UPDATE_INTERVAL)
    /\ sinceSuccess' = Min(sinceSuccess + CoolDownDelay, SuccessCap)
    /\ noStatusRun' = 0
    /\ connectFailRun' = 0
    /\ ev' = Event("cooldown", FALSE, FALSE, FALSE, NoLoop, FALSE,
                   CoolDownDelay, 0, noStatusRun, FALSE, FALSE)
    /\ UNCHANGED << wifi, serverGood, status, keepAlive, halted >>

\* lines 115-134 and 156: nothing to send yet
LoopIdle ==
    /\ UNCHANGED clock
    /\ ~halted
    /\ wifi = "WL_CONNECTED"
    /\ ~CoolDownDue(consecutiveTimeouts)
    /\ ~UpdateDue(sinceUpdate)
    /\ LET k == KeepAliveCheck(keepAlive, isConnected, client, sinceConnection)
       IN  \E d \in PauseTimes :
            /\ isConnected' = k.ic
            /\ client' = k.cl
            /\ unread' = (Connected(k.cl) /\ unread)
            /\ lastLive' = IF keepAlive /\ isConnected THEN Connected(client)
                           ELSE lastLive
            /\ openedFor' = Older(k.cl, openedFor, d)
            /\ sinceConnection' =
                   ConnAge(k.ic, AgeAt(sinceConnection, -1, d, AgeCap))
            /\ sinceUpdate' = Min(sinceUpdate + d, UPDATE_INTERVAL)
            /\ sinceSuccess' = Min(sinceSuccess + d, SuccessCap)
            /\ ev' = Quiet("idle", FALSE, d)
    /\ connectFailRun' = 0
    /\ UNCHANGED << wifi, serverGood, status, keepAlive, consecutiveTimeouts,
                    halted, noStatusRun >>

\* lines 99-134 with the return of line 112 missing: the guard without the
\* cool-down test
SendDueAfterCoolDown ==
    /\ ~halted
    /\ wifi = "WL_CONNECTED"
    /\ UpdateDue(sinceUpdate)

\* the guard of every path that reaches enviar_datos_sensores() (line 152)
SendDue ==
    /\ ~halted
    /\ wifi = "WL_CONNECTED"
    /\ ~CoolDownDue(consecutiveTimeouts)
    /\ UpdateDue(sinceUpdate)

\* what can happen between line 246 and the request: to a connect attempt
\* one of ConnectOutcomes; to a reused connection "kept", or "lost" (it was
\* live at line 119 and is not at line 284)
AttemptOutcomes == ConnectOutcomes \cup {"kept", "lost"}

\* lines 243-285 up to connection_success: k is the keep-alive check's
\* result, s the time since line 97, a the outcome
Attempt(k, s, a) ==
    LET need == NeedConnect(k.ic, AgeAt(sinceConnection, -1, s, AgeCap))
    IN  [need |-> need,
         possible |-> /\ IF need THEN a \in ConnectOutcomes
                         ELSE a = "kept" \/ (a = "lost" /\ Connected(k.cl))
                      /\ serverGood => a \in {"accepted", "kept"},
         cl |-> CASE a = "accepted" -> "live"
                  [] a = "refused" -> StopIfConnected(k.cl)
                  [] a = "kept" -> k.cl
                  [] OTHER -> "dropped",
         took |-> IF a = "refused" THEN ConnectBudget ELSE 0]

\* lines 243-281: the connect attempt fails
LoopConnectFail ==
    /\ UNCHANGED clock
    /\ SendDue
    /\ LET k == KeepAliveCheck(keepAlive, isConnected, client, sinceConnection)
       IN  \E s \in SampleTimes, a \in AttemptOutcomes, d \in PauseTimes :
            LET t == Attempt(k, s, a)
                total == s + t.took + d
            IN  /\ t.possible
                /\ t.need
                /\ ~ConnectionSuccess(t.cl)
                /\ client' = t.cl
                /\ sinceUpdate' = Min(total, UPDATE_INTERVAL)
                /\ sinceSuccess' = Min(sinceSuccess + total, SuccessCap)
                /\ ev' = Event("connect_fail", TRUE, FALSE, FALSE, NoLoop,
                               FALSE, total, 0, 0, FALSE,
                               Unclosed(t.need, k.cl))
    /\ isConnected' = FALSE
    /\ unread' = FALSE
    /\ lastLive' = FALSE
    /\ openedFor' = 0
    /\ sinceConnection' = AgeCap
    /\ noStatusRun' = noStatusRun
    /\ connectFailRun' = Min(connectFailRun + 1, FailRunCap)
    /\ consecutiveTimeouts' = ConnectFailCounters(consecutiveTimeouts).ct
    /\ UNCHANGED << wifi, serverGood, status, keepAlive, halted >>

\* lines 282-292: the kept connection is reused and turns out to be gone
LoopNoConn ==
    /\ UNCHANGED clock
    /\ SendDue
    /\ LET k == KeepAliveCheck(keepAlive, isConnected, client, sinceConnection)
       IN  \E s \in SampleTimes, a \in AttemptOutcomes, d \in PauseTimes :
            LET t == Attempt(k, s, a)
                total == s + t.took + d
            IN  /\ t.possible
                /\ ~t.need
                /\ ~ConnectionSuccess(t.cl)
                /\ client' = t.cl
                /\ sinceUpdate' = Min(total, UPDATE_INTERVAL)
                /\ sinceSuccess' = Min(sinceSuccess + total, SuccessCap)
                /\ ev' = Quiet("no_conn", FALSE, total)
    /\ isConnected' = FALSE
    /\ unread' = FALSE
    /\ lastLive' = FALSE
    /\ openedFor' = 0
    /\ sinceConnection' = AgeCap
    /\ noStatusRun' = noStatusRun
    /\ connectFailRun' = 0
    /\ UNCHANGED << wifi, serverGood, status, keepAlive, consecutiveTimeouts,
                    halted >>

\* lines 243-470 on the path that writes the request: connect (or reuse),
\* request, response loop, timeout check, drain, keep-alive, counters
LoopSend ==
    /\ UNCHANGED clock
    /\ SendDue
    /\ LET k == KeepAliveCheck(keepAlive, isConnected, client, sinceConnection)
       IN  \E s \in SampleTimes, a \in AttemptOutcomes :
            LET t == Attempt(k, s, a)
            IN  /\ t.possible
                /\ ConnectionSuccess(t.cl)
                /\ \E res \in Readable(t.need, unread, serverGood),
                      d \in PauseTimes :
                    LET \* line 272: lastConnectionTime = millis()
                        at1 == IF t.need THEN s + t.took ELSE -1
                        tW == s + t.took + res.elapsed
                        close == TimeoutClose(res.responseReceived, res.elapsed)
                        \* line 399
                        at2 == IF res.responseReceived THEN tW ELSE at1
                        cl1 == IF close THEN "closed"
                               ELSE IF res.dropped THEN "dropped"
                               ELSE "live"
                        e == KeepAliveEnd(keepAlive, ~close, cl1)
                        \* line 422
                        at3 == IF e.stamped THEN tW ELSE at2
                        c == Counters(res.responseReceived, res.responseCode,
                                      consecutiveTimeouts)
                        total == tW + d
                    IN  /\ Connected(t.cl) \/ res = NoLoop
                        /\ unread' = FALSE
                        /\ client' = e.cl
                        /\ isConnected' = e.ic
                        /\ lastLive' = IF keepAlive THEN Connected(cl1)
                                       ELSE ~res.dropped
                        /\ openedFor' =
                               IF t.need THEN Older(e.cl, 0, total - s - t.took)
                               ELSE Older(e.cl, openedFor, total)
                        /\ consecutiveTimeouts' = c.ct
                        /\ sinceConnection' =
                               ConnAge(e.ic, AgeAt(sinceConnection, at3, total, AgeCap))
                        /\ sinceUpdate' = Min(total, UPDATE_INTERVAL)
                        /\ sinceSuccess' =
                               AgeAt(sinceSuccess, IF c.stamped THEN tW ELSE -1,
                                     total, SuccessCap)
                        /\ noStatusRun' = IF res.responseReceived THEN 0
                                          ELSE noStatusRun + 1
                        /\ ev' = Event("cycle", t.need, TRUE, Connected(t.cl),
                                       res, c.stamped, total, d, 0,
                                       Stale(t.need, sinceConnection, s),
                                       Unclosed(t.need, k.cl))
    /\ connectFailRun' = 0
    /\ UNCHANGED << wifi, serverGood, status, keepAlive, halted >>

Loop ==
    \/ LoopWiFiLost
    \/ LoopCoolDown
    \/ LoopIdle
    \/ LoopConnectFail
    \/ LoopNoConn
    \/ LoopSend

Next ==
    \/ EnvWiFi
    \/ EnvServer
    \/ EnvDrop
    \/ EnvLate
    \/ Loop

Spec == Init /\ [][Next]_vars

\* the Arduino core calls loop() again whenever it has returned
FairSpec == Spec /\ WF_vars(Loop)

\* the sketch built with either value of USE_KEEP_ALIVE (line 22)
InitAnyBuild ==
    /\ clock = ClockAtBoot
    /\ keepAlive \in BOOLEAN
    /\ wifi = "WL_CONNECTED"
    /\ serverGood \in BOOLEAN
    /\ status = "WL_CONNECTED"
    /\ client = "closed"
    /\ isConnected = FALSE
    /\ consecutiveTimeouts = 0
    /\ sinceUpdate = UPDATE_INTERVAL
    /\ sinceConnection = AgeCap
    /\ sinceSuccess = SuccessCap
    /\ unread = FALSE
    /\ halted = FALSE
    /\ lastLive = FALSE
    /\ noStatusRun = 0
    /\ connectFailRun = 0
    /\ openedFor = 0
    /\ ev = [n |-> 0, path |-> "boot", attempted |-> FALSE, wrote |-> FALSE,
             live |-> FALSE, sent |-> FALSE, taken |-> -1, received |-> FALSE,
             elapsed |-> 0,
             stamped |-> FALSE, total |-> 0, tail |-> 0, run |-> 0,
             stale |-> FALSE, unclosed |-> FALSE]

AnyBuildSpec == InitAnyBuild /\ [][Next]_vars

(***************************************************************************)
(* The interval tests on the 32-bit clock                                  *)
(***************************************************************************)
\* values of millis() shortly before and after it wraps
ClockStarts ==
    {Sub32(Word(0), Word(back)) : back \in {500, 3000}} \cup {Word(500)}

\* time since the last cycle ended
ClockBacks == {500, 119500, 120000}

\* time from the end of one loop() invocation to the start of the next
ClockPauses == {LoopDelay + 490}

\* time one client.connect() call takes when it fails
ConnectTimes == {2400}

\* time the response loop spends between two evaluations of its condition
ReadTimes == {2500}

\* d more milliseconds pass
Advance(c, d) ==
    [c EXCEPT !.now = Add32(@, Word(d)),
              !.ageUpdate = @ + d, !.ageConnection = @ + d,
              !.ageStart = @ + d, !.ran = @ + d]

\* one interval test: which, its outcome, the time that had really passed
\* since the stamp, and whether millis() had wrapped since the stamp
IntervalTest(test, decided, elapsed, now, stamp) ==
    [test |-> test, decided |-> decided, elapsed |-> elapsed,
     wrapped |-> Less32(now, stamp)]

\* lines 263 and 317: the wait loop goes on
WithinBudget(elapsed, budget) == elapsed < budget

\* lines 97-156 and 208-262 of one loop() invocation with WiFi up and no
\* cool-down due, up to the first wait loop
ClockTick ==
    /\ clock.phase = "loop"
    /\ LET cur == clock.now
           k == KeepAliveCheck(keepAlive, clock.conn, "live",
                               Elapsed32(cur, clock.lastConnectionTime))
           t1 == IF clock.conn
                 THEN {IntervalTest("renewal", k.stamped, clock.ageConnection,
                                    cur, clock.lastConnectionTime)}
                 ELSE {}
           c1 == IF k.stamped
                 THEN [clock EXCEPT !.lastConnectionTime = cur,
                                    !.ageConnection = 0, !.conn = FALSE]
                 ELSE clock
           due == UpdateDue(Elapsed32(cur, clock.lastUpdateTime))
           t2 == {IntervalTest("update", due, clock.ageUpdate, cur,
                               clock.lastUpdateTime)}
       IN  IF ~due
           THEN \E d \in ClockPauses :
                clock' = Advance([c1 EXCEPT !.tests = t1 \cup t2], d)
           ELSE \E s \in SampleTimes :
                LET c2 == Advance([c1 EXCEPT !.lastUpdateTime = cur,
                                             !.ageUpdate = 0], s)
                    need == NeedConnect(c2.conn,
                                Elapsed32(c2.now, c2.lastConnectionTime))
                    t3 == IF c2.conn
                          THEN {IntervalTest("reconnect", need,
                                    c2.ageConnection, c2.now,
                                    c2.lastConnectionTime)}
                          ELSE {}
                IN  clock' =
                      IF need
                      THEN [c2 EXCEPT !.phase = "connect", !.conn = FALSE,
                                      !.connect_start = c2.now,
                                      !.ageStart = 0,
                                      !.tests = t1 \cup t2 \cup t3]
                      ELSE [c2 EXCEPT !.phase = "response",
                                      !.timeout_start = c2.now,
                                      !.ageStart = 0,
                                      !.tests = t1 \cup t2 \cup t3]
    /\ clock'.ran <= ClockHorizon
    /\ UNCHANGED << wifi, serverGood, status, keepAlive, client, isConnected,
                    consecutiveTimeouts, sinceUpdate, sinceConnection,
                    sinceSuccess, unread, halted, lastLive, noStatusRun,
                    connectFailRun, openedFor, ev >>

\* lines 263-266: one client.connect() call and, when it fails, one
\* evaluation of the budget test; lines 268-292 and 310 when the loop ends
ClockConnectWait ==
    /\ clock.phase = "connect"
    /\ \E t \in ConnectTimes, ok \in BOOLEAN :
       LET c1 == Advance(clock, t)
           go == WithinBudget(Elapsed32(c1.now, c1.connect_start),
                              ConnectBudget)
           t1 == {IntervalTest("connect", go, c1.ageStart, c1.now,
                               c1.connect_start)}
       IN  IF ok
           THEN clock' = [c1 EXCEPT !.conn = TRUE,
                                    !.lastConnectionTime = c1.now,
                                    !.ageConnection = 0,
                                    !.phase = "response",
                                    !.connect_start = Word(0),
                                    !.timeout_start = c1.now,
                                    !.ageStart = 0, !.tests = {}]
           ELSE IF go
                THEN clock' = Advance([c1 EXCEPT !.tests = t1], RetryDelay)
                ELSE \E d \in ClockPauses :
                     clock' = [Advance([c1 EXCEPT !.phase = "loop",
                                                  !.connect_start = Word(0),
                                                  !.tests = t1], d)
                                 EXCEPT !.ageStart = 0]
    /\ clock'.ran <= ClockHorizon
    /\ UNCHANGED << wifi, serverGood, status, keepAlive, client, isConnected,
                    consecutiveTimeouts, sinceUpdate, sinceConnection,
                    sinceSuccess, unread, halted, lastLive, noStatusRun,
                    connectFailRun, openedFor, ev >>

\* lines 317-378: one evaluation of the condition of the response loop;
\* lines 381-430 and 156 when the loop ends
ClockResponseWait ==
    /\ clock.phase = "response"
    /\ LET go == WithinBudget(Elapsed32(clock.now, clock.timeout_start),
                              ResponseBudget)
           t1 == {IntervalTest("response", go, clock.ageStart, clock.now,
                               clock.timeout_start)}
       IN  \E done \in BOOLEAN :
           IF go /\ ~done
           THEN \E t \in ReadTimes :
                clock' = Advance([clock EXCEPT !.tests = t1], t)
           ELSE \E open \in BOOLEAN, d \in ClockPauses :
                LET c1 == [clock EXCEPT !.phase = "loop",
                                        !.timeout_start = Word(0),
                                        !.tests = t1]
                    c2 == IF open
                          THEN [c1 EXCEPT !.lastConnectionTime = clock.now,
                                          !.ageConnection = 0, !.conn = TRUE]
                          ELSE [c1 EXCEPT !.conn = FALSE]
                IN  clock' = [Advance(c2, d) EXCEPT !.ageStart = 0]
    /\ clock'.ran <= ClockHorizon
    /\ UNCHANGED << wifi, serverGood, status, keepAlive, client, isConnected,
                    consecutiveTimeouts, sinceUpdate, sinceConnection,
                    sinceSuccess, unread, halted, lastLive, noStatusRun,
                    connectFailRun, openedFor, ev >>

ClockNext == ClockTick \/ ClockConnectWait \/ ClockResponseWait

\* the sketch after it has run for almost 2^32 ms
ClockInit ==
    /\ clock \in {ClockAt(at, back, conn) :
                    at \in ClockStarts, back \in ClockBacks, conn \in BOOLEAN}
    /\ keepAlive = TRUE
    /\ wifi = "WL_CONNECTED"
    /\ serverGood = TRUE
    /\ status = "WL_CONNECTED"
    /\ client = "closed"
    /\ isConnected = FALSE
    /\ consecutiveTimeouts = 0
    /\ sinceUpdate = UPDATE_INTERVAL
    /\ sinceConnection = AgeCap
    /\ sinceSuccess = SuccessCap
    /\ unread = FALSE
    /\ halted = FALSE
    /\ lastLive = FALSE
    /\ noStatusRun = 0
    /\ connectFailRun = 0
    /\ openedFor = 0
    /\ ev = [n |-> 0, path |-> "boot", attempted |-> FALSE, wrote |-> FALSE,
             live |-> FALSE, sent |-> FALSE, taken |-> -1, received |-> FALSE,
             elapsed |-> 0,
             stamped |-> FALSE, total |-> 0, tail |-> 0, run |-> 0,
             stale |-> FALSE, unclosed |-> FALSE]

ClockSpec == ClockInit /\ [][ClockNext]_vars

TypeOK ==
    /\ wifi \in WiFiStatuses
    /\ serverGood \in BOOLEAN
    /\ client \in {"closed", "live", "dropped"}
    /\ isConnected \in BOOLEAN
    /\ consecutiveTimeouts \in 0..MAX_CONSECUTIVE_TIMEOUTS
    /\ sinceUpdate \in 0..UPDATE_INTERVAL
    /\ sinceConnection \in 0..AgeCap
    /\ sinceSuccess \in 0..SuccessCap
    /\ noStatusRun \in 0..MAX_CONSECUTIVE_TIMEOUTS
    /\ connectFailRun \in 0..FailRunCap
    /\ openedFor \in 0..RECONNECT_INTERVAL
    /\ ev.path \in Paths
    /\ ev.n \in {0, 1}
    /\ status \in WiFiStatuses
    /\ keepAlive \in BOOLEAN
    /\ halted \in BOOLEAN
    /\ unread \in BOOLEAN
    /\ unread => Connected(client)
    /\ lastLive \in BOOLEAN

(***************************************************************************)
(* Properties                                                              *)
(***************************************************************************)
\* a step that is one loop() invocation
LoopStep == ev'.n # ev.n

\* the step is a send cycle: the request was written and the response loop ran
CycleStep == LoopStep /\ ev'.path = "cycle"

\* lastSuccessfulSend is the same stamp after the step as before it
SuccessStampKept ==
    /\ ~ev'.stamped
    /\ sinceSuccess' = Min(sinceSuccess + ev'.total, SuccessCap)

\* lastSuccessfulSend was set to millis() in the step
SuccessStampSet ==
    /\ ev'.stamped
    /\ sinceSuccess' = ev'.tail

\* the step is a cool-down as the claim describes it
CoolDownTick ==
    /\ ev'.path = "cooldown"
    /\ ~ev'.attempted
    /\ ~ev'.wrote
    /\ ~Connected(client')
    /\ ~isConnected'
    /\ consecutiveTimeouts' = 0

\* C1 as stated: after MAX_CONSECUTIVE_TIMEOUTS send cycles in a row without
\* a status line, the very next loop() invocation is a cool-down (no connect
\* attempt, no request, transport closed, isConnected false,
\* consecutiveTimeouts 0).
C1_NextTickCoolsDown ==
    [][LoopStep /\ ev.path = "cycle" /\ noStatusRun = MAX_CONSECUTIVE_TIMEOUTS
         => CoolDownTick]_vars

\* C1 as the code has it: after MAX_CONSECUTIVE_TIMEOUTS send cycles in a
\* row without a status line, every loop() invocation that finds WiFi
\* connected, up to and including the first, is a cool-down; an invocation
\* that finds WiFi lost returns at line 93 before the counter is looked at.
C1_NextTickWithWiFiCoolsDown ==
    [][LoopStep /\ noStatusRun = MAX_CONSECUTIVE_TIMEOUTS
         => IF wifi = "WL_CONNECTED" THEN CoolDownTick
            ELSE /\ ev'.path \in {"wifi_lost", "halt"}
                 /\ consecutiveTimeouts' = MAX_CONSECUTIVE_TIMEOUTS
                 /\ noStatusRun' = noStatusRun]_vars

\* a cool-down that followed MAX_CONSECUTIVE_TIMEOUTS cycles without a
\* status line has run
C1_CoolDownRan ==
    /\ ev.path = "cooldown"
    /\ ev.run = MAX_CONSECUTIVE_TIMEOUTS
    /\ consecutiveTimeouts = 0
    /\ ~isConnected

\* C2 as stated: after three consecutive loop() invocations whose connect
\* attempt failed, the next invocation is a cool-down without a connect
\* attempt.
C2_CoolDownAfterConnectFailures ==
    [][LoopStep /\ ev.path = "connect_fail"
                /\ connectFailRun >= MAX_CONSECUTIVE_TIMEOUTS
         => ev'.path = "cooldown" /\ ~ev'.attempted]_vars

\* C2 as the code has it: failed connect attempts do not count as timeouts.
\* After three consecutive invocations whose connect attempt failed,
\* consecutiveTimeouts is still below the threshold, the next invocation is
\* not a cool-down, and if it finds WiFi connected and an update due it
\* makes a connect attempt again.
C2_NoCoolDownAfterConnectFailures ==
    [][LoopStep /\ ev.path = "connect_fail"
                /\ connectFailRun >= MAX_CONSECUTIVE_TIMEOUTS
         => /\ consecutiveTimeouts < MAX_CONSECUTIVE_TIMEOUTS
            /\ ev'.path # "cooldown"
            /\ (wifi = "WL_CONNECTED" /\ UpdateDue(sinceUpdate)
                  => ev'.attempted)]_vars

\* a fourth consecutive invocation has made a connect attempt, and failed
C2_FourthAttemptMade ==
    /\ ev.path = "connect_fail"
    /\ ev.attempted
    /\ connectFailRun > MAX_CONSECUTIVE_TIMEOUTS

\* C3: isConnected implies that the most recent client.connected() returned
\* true, and a request is written only in an invocation whose latest
\* client.connected() before the write returned true.
C3_ConnectedImpliesLive ==
    /\ isConnected => lastLive
    /\ ev.wrote => ev.live

\* an invocation found the kept connection gone at line 284 and wrote
\* nothing
C3_LostConnectionSeen ==
    /\ ev.path = "no_conn"
    /\ ~ev.wrote
    /\ ~lastLive
    /\ ~isConnected

\* C4: if from some point on WiFi is connected and the server accepts every
\* connection and answers every request with 200 inside the budget, then
\* (loop() being called again and again) lastSuccessfulSend is updated
\* again and again.
C4_EventuallySucceeds ==
    <>[](wifi = "WL_CONNECTED" /\ serverGood) => []<>(ev.path = "cycle" /\ ev.stamped)

\* the server is good, WiFi is connected and loop() is stuck at line 165
C4_HaltedWithGoodServer ==
    /\ halted
    /\ wifi = "WL_CONNECTED"
    /\ serverGood

\* C5: a connection that has been open for RECONNECT_INTERVAL when a loop()
\* invocation begins is closed by that invocation, if it returns: after it
\* the transport is not live, or is a connection opened in the invocation.
C5_LifetimeBounded ==
    [][LoopStep /\ Connected(client) /\ openedFor >= RECONNECT_INTERVAL
                /\ ev'.path # "halt"
         => ~Connected(client') \/ ev'.attempted]_vars

\* a connection at least RECONNECT_INTERVAL old has carried one more cycle
\* and is still open
C5_OldConnectionReused ==
    /\ ev.path = "cycle"
    /\ ~ev.attempted
    /\ Connected(client)
    /\ isConnected
    /\ openedFor >= RECONNECT_INTERVAL

\* C6: a send cycle in which the server's status line carries a code >= 400
\* leaves consecutiveTimeouts 0 and lastSuccessfulSend unchanged.
C6_ServerErrorResetsCounter ==
    [][CycleStep /\ ev'.received /\ ev'.taken >= 400
         => consecutiveTimeouts' = 0 /\ SuccessStampKept]_vars

\* a status line with code 500 was received and consecutiveTimeouts is not 0
C6_ErrorLeftCounter ==
    /\ ev.path = "cycle"
    /\ ev.received
    /\ ev.taken = 500
    /\ consecutiveTimeouts > 0

\* C7: a send cycle in which the server's status line carries code 200 sets
\* lastSuccessfulSend to the current time and consecutiveTimeouts to 0, and
\* with keep-alive and a transport still live ends with isConnected true.
C7_SuccessStamps ==
    [][CycleStep /\ ev'.received /\ ev'.taken = 200
         => /\ SuccessStampSet
            /\ consecutiveTimeouts' = 0
            /\ (keepAlive /\ Connected(client') => isConnected')]_vars

\* a status line with code 200 was received and lastSuccessfulSend was not
\* set
C7_OkNotStamped ==
    /\ ev.path = "cycle"
    /\ ev.received
    /\ ev.taken = 200
    /\ ~ev.stamped

\* C8: a send cycle that ends without a recognized status line increments
\* consecutiveTimeouts by exactly 1, and if the response loop ran for at
\* least CloseMargin it closes the transport and clears isConnected.
C8_TimeoutCounts ==
    [][CycleStep /\ ~ev'.received
         => /\ consecutiveTimeouts' = consecutiveTimeouts + 1
            /\ (ev'.elapsed >= CloseMargin
                  => client' = "closed" /\ ~isConnected')]_vars

\* a cycle without a status line waited exactly CloseMargin and closed
C8_ClosedAtMargin ==
    /\ ev.path = "cycle"
    /\ ~ev.received
    /\ ev.elapsed = CloseMargin
    /\ client = "closed"
    /\ ~isConnected
    /\ consecutiveTimeouts > 0

\* C9: an invocation whose connect attempt fails writes no request, leaves
\* isConnected false and leaves consecutiveTimeouts and lastSuccessfulSend
\* as they were.
C9_ConnectFailureIsQuiet ==
    [][LoopStep /\ ev'.attempted /\ ~ev'.live
         => /\ ~ev'.wrote
            /\ ~isConnected'
            /\ consecutiveTimeouts' = consecutiveTimeouts
            /\ SuccessStampKept]_vars

\* a connect attempt failed while consecutiveTimeouts was not 0
C9_ConnectFailed ==
    /\ ev.path = "connect_fail"
    /\ ev.attempted
    /\ ~ev.live
    /\ consecutiveTimeouts > 0

\* C10: a send cycle in which the server's status line carries a code that
\* is neither 200 nor >= 400 leaves consecutiveTimeouts and
\* lastSuccessfulSend as they were.
C10_OtherCodesChangeNothing ==
    [][CycleStep /\ ev'.received /\ ev'.taken # 200 /\ ev'.taken < 400
         => consecutiveTimeouts' = consecutiveTimeouts /\ SuccessStampKept]_vars

\* a 202 was received while consecutiveTimeouts was not 0
C10_AcceptedSeen ==
    /\ ev.path = "cycle"
    /\ ev.received
    /\ ev.taken = 202
    /\ consecutiveTimeouts > 0

\* the step ran enviar_datos_sensores()
PublishStep == LoopStep /\ ev'.path \in {"connect_fail", "no_conn", "cycle"}

\* C11: in a build without keep-alive, every loop() invocation that runs
\* enviar_datos_sensores() ends with isConnected false and the transport
\* not connected, whatever the outcome was.
C11_NoKeepAliveEndsClosed ==
    [][PublishStep /\ ~keepAlive
         => ~isConnected' /\ ~Connected(client')]_vars

\* without keep-alive a cycle received a 200 and ended closed
C11_ClosedAfterSuccess ==
    /\ ~keepAlive
    /\ ev.path = "cycle"
    /\ ev.taken = 200
    /\ ev.stamped
    /\ client = "closed"
    /\ ~isConnected

\* C12: a loop() invocation that begins with isConnected true and
\* lastConnectionTime RECONNECT_INTERVAL or more in the past writes a request
\* only on a connection it has opened itself, and no request is ever written
\* on a reused connection whose lastConnectionTime is RECONNECT_INTERVAL or
\* more in the past.
C12_NoRequestOnOldConnection ==
    [][LoopStep
         => /\ (isConnected /\ sinceConnection >= RECONNECT_INTERVAL /\ ev'.wrote
                  => ev'.attempted)
            /\ ~(ev'.wrote /\ ev'.stale)]_vars

\* a request was written on a reused connection exactly RECONNECT_INTERVAL
\* after its last activity
C12_WrittenAtTheInterval ==
    /\ ev.path = "cycle"
    /\ ev.wrote
    /\ ~ev.attempted
    /\ ev.stale

\* the first half of C12 alone: the renewal of lines 125-130 precedes every
\* request of the invocation
C12_RenewalBeforeRequest ==
    [][LoopStep /\ isConnected /\ sinceConnection >= RECONNECT_INTERVAL
         => /\ ev'.wrote => ev'.attempted
            /\ ev'.path # "halt" => ~isConnected' \/ ev'.attempted]_vars

\* C13: every invocation of loop() returns, whatever the WiFi module and
\* the transport do: no invocation is stuck inside a loop without a bound.
C13_EveryInvocationReturns == ~halted

\* loop() saw WL_NO_MODULE and is inside while (true) of line 164
C13_StuckWithoutModule ==
    /\ halted
    /\ ev.path = "halt"
    /\ wifi = "WL_NO_MODULE"

\* C14: client.connect() is never called on a handle that an earlier
\* successful connect opened and on which client.stop() has not been called
\* since.
C14_ClosedBeforeReopen == ev.attempted => ~ev.unclosed

\* a connection that the peer had ended was replaced by a new one without a
\* call of client.stop()
C14_ReopenedWithoutStop ==
    /\ ev.path = "cycle"
    /\ ev.attempted
    /\ ev.unclosed
    /\ Connected(client)

\* C15: when a request is written on a reused connection, the client's
\* receive buffer holds no bytes of an earlier response.
C15_NothingUnreadAtWrite ==
    [][CycleStep /\ ~ev'.attempted => ~unread]_vars

\* a cycle on a reused connection read the unread end of the previous
\* response together with the status line of its own response, and counted
\* the cycle as one without a response
C15_StaleBytesHidStatusLine ==
    /\ ev.path = "cycle"
    /\ ~ev.attempted
    /\ ev.sent
    /\ ~ev.received
    /\ consecutiveTimeouts > 0

\* C19: whenever the cool-down branch of loop() fires, the
\* MAX_CONSECUTIVE_TIMEOUTS most recent send cycles each ended without a
\* status line received.
C19_CoolDownOnlyAfterTimeoutsInARow ==
    ev.path = "cooldown" => ev.run >= MAX_CONSECUTIVE_TIMEOUTS

\* the cool-down fired although a status line was received in one of the
\* last MAX_CONSECUTIVE_TIMEOUTS cycles
C19_CoolDownAfterAnsweredCycle ==
    /\ ev.path = "cooldown"
    /\ ev.run < MAX_CONSECUTIVE_TIMEOUTS
    /\ consecutiveTimeouts = 0

\* the step is a send cycle in which a status line with a code >= 400 was
\* received
ServerErrorStep == CycleStep /\ ev'.received /\ ev'.taken >= 400

\* C16 as stated: in a cycle where a status line with code >= 400 is
\* received, client.stop() is not called after the request was written (the
\* client, live when the request was written, is not closed when the cycle
\* ends), and with keep-alive and the transport still live the cycle ends
\* with isConnected true.
C16_ServerErrorKeepsConnection ==
    [][ServerErrorStep
         => /\ client' # "closed"
            /\ (keepAlive /\ Connected(client') => isConnected')]_vars

\* C16 as the code has it: in a build with keep-alive the same cycle does
\* not call client.stop() and ends with isConnected true if the transport
\* is still live; in a build without keep-alive line 428 stops the client
\* after every cycle.
C16_ServerErrorKeepsKeptAliveConnection ==
    [][ServerErrorStep
         => IF keepAlive
            THEN /\ client' # "closed"
                 /\ (Connected(client') => isConnected')
            ELSE client' = "closed" /\ ~isConnected']_vars

\* with keep-alive a 500 arrived after CloseMargin and the connection is
\* still open
C16_OpenAfterLateError ==
    /\ keepAlive
    /\ ev.path = "cycle"
    /\ ev.received
    /\ ev.taken = 500
    /\ ev.elapsed >= CloseMargin
    /\ Connected(client)
    /\ isConnected

\* C17: consecutiveTimeouts stays within 0..MAX_CONSECUTIVE_TIMEOUTS, and
\* from a state where it is at the threshold no loop() invocation runs
\* enviar_datos_sensores(): the invocation is the cool-down, which resets
\* it to 0, or returns early for lost WiFi and leaves it as it is.
C17_CounterStaysInRange ==
    /\ consecutiveTimeouts \in 0..MAX_CONSECUTIVE_TIMEOUTS
    /\ [][/\ consecutiveTimeouts' \in 0..MAX_CONSECUTIVE_TIMEOUTS
          /\ (LoopStep /\ consecutiveTimeouts >= MAX_CONSECUTIVE_TIMEOUTS
                => /\ ~PublishStep
                   /\ \/ ev'.path = "cooldown" /\ consecutiveTimeouts' = 0
                      \/ /\ ev'.path \in {"wifi_lost", "halt"}
                         /\ consecutiveTimeouts' = consecutiveTimeouts)]_vars

\* the counter is at the threshold after an iteration that returned early
\* for lost WiFi
C17_AtThresholdAcrossWiFiLoss ==
    /\ consecutiveTimeouts = MAX_CONSECUTIVE_TIMEOUTS
    /\ ev.path = "wifi_lost"

\* C18: a loop() invocation that observes WiFi.status() other than
\* WL_CONNECTED (and returns) has called WiFi.begin() in conectar_wifi() and
\* returns with WiFi associated; it writes no request and ends with
\* isConnected false and the client not connected.
C18_WiFiLossReassociates ==
    [][LoopStep /\ ev'.path = "wifi_lost"
         => /\ AssociationLoopRuns(status)
            /\ wifi' = "WL_CONNECTED"
            /\ ~ev'.wrote
            /\ ~isConnected'
            /\ ~Connected(client')]_vars

\* loop() has returned from the WiFi-lost branch and WiFi is still down,
\* while the global status still holds the WL_CONNECTED of setup()
C18_ReturnedWithoutWiFi ==
    /\ ev.path = "wifi_lost"
    /\ wifi = "WL_DISCONNECTED"
    /\ ~AssociationLoopRuns(status)

\* the second half of C18 alone: the WiFi-lost invocation writes no request
\* and ends with isConnected false and the client not connected
C18_WiFiLossTickIsQuiet ==
    [][LoopStep /\ ev'.path = "wifi_lost"
         => /\ ~ev'.wrote
            /\ ~isConnected'
            /\ ~Connected(client')]_vars

\* what an interval test decides when it compares the time that has really
\* passed since the stamp
TrueDecision(test, elapsed) ==
    CASE test = "update" -> UpdateDue(elapsed)
      [] test = "renewal" -> elapsed >= RECONNECT_INTERVAL
      [] test = "reconnect" -> NeedConnect(TRUE, elapsed)
      [] test = "connect" -> WithinBudget(elapsed, ConnectBudget)
      [] test = "response" -> WithinBudget(elapsed, ResponseBudget)

\* C20: across the wrap of millis() the 32-bit difference millis() - stamp
\* is the time that has really passed since lastUpdateTime,
\* lastConnectionTime, connect_start and timeout_start were written, and the
\* update-due test, the renewal tests and the two budget tests decide as they
\* would on that time: no send is held back past UPDATE_INTERVAL, no
\* connection is renewed early, no wait loop goes on past its budget.
C20_IntervalTestsSurviveWrap ==
    /\ Elapsed32(clock.now, clock.lastUpdateTime) = clock.ageUpdate
    /\ Elapsed32(clock.now, clock.lastConnectionTime) = clock.ageConnection
    /\ clock.phase = "connect"
         => Elapsed32(clock.now, clock.connect_start) = clock.ageStart
    /\ clock.phase = "response"
         => Elapsed32(clock.now, clock.timeout_start) = clock.ageStart
    /\ \A t \in clock.tests : t.decided = TrueDecision(t.test, t.elapsed)

\* a send was found due by a test made after millis() had wrapped past
\* lastUpdateTime
C20_DueAcrossWrap ==
    \E t \in clock.tests :
        /\ t.test = "update"
        /\ t.decided
        /\ t.wrapped

====
